---- MODULE Spec2Model ----
(***************************************************************************)
(* Model of the multi-type coverage analysis of question3.py:              *)
(* three_or_above_facilities (buffer, per-type layers, a process pool      *)
(* running process_combination once per 3-combination of FacilityTypes,    *)
(* merge, clip, rmtree of ./shape/, dissolve, split) together with the     *)
(* helpers it uses (itertools.combinations, enumerate,                     *)
(* core.replace_special_chars).                                            *)
(*                                                                         *)
(* Text is modelled as it is processed: replace_special_chars works on the *)
(* characters of a facility type, file names are built by concatenation.   *)
(***************************************************************************)
EXTENDS Integers, Sequences, FiniteSets, TLC

(***************************************************************************)
(* consts.py: the facility types, in the order of the list.                *)
(***************************************************************************)
FacilityTypes ==
    << "Badminton Courts",
       "Basketball Courts",
       "Country Parks",
       "Fitness Rooms",
       "Other Recreation & Sports Facilities",
       "Parks, Zoos And Gardens",
       "Sports Grounds",
       "Swimming Pools" >>

\* The characters of a facility type, one string per character (str is a
\* sequence of characters in the source; here a string is atomic).
Chars(name) ==
    CASE name = "Badminton Courts" ->
           <<"B","a","d","m","i","n","t","o","n"," ","C","o","u","r","t","s">>
      [] name = "Basketball Courts" ->
           <<"B","a","s","k","e","t","b","a","l","l"," ","C","o","u","r","t","s">>
      [] name = "Country Parks" ->
           <<"C","o","u","n","t","r","y"," ","P","a","r","k","s">>
      [] name = "Fitness Rooms" ->
           <<"F","i","t","n","e","s","s"," ","R","o","o","m","s">>
      [] name = "Other Recreation & Sports Facilities" ->
           <<"O","t","h","e","r"," ","R","e","c","r","e","a","t","i","o","n"," ","&"," ","S","p","o","r","t","s"," ","F","a","c","i","l","i","t","i","e","s">>
      [] name = "Parks, Zoos And Gardens" ->
           <<"P","a","r","k","s",","," ","Z","o","o","s"," ","A","n","d"," ","G","a","r","d","e","n","s">>
      [] name = "Sports Grounds" ->
           <<"S","p","o","r","t","s"," ","G","r","o","u","n","d","s">>
      [] name = "Swimming Pools" ->
           <<"S","w","i","m","m","i","n","g"," ","P","o","o","l","s">>

\* question3.py:58  combinations(FacilityTypes, 3)
K == 3

\* How many of the facility types (the last ones of FacilityTypes, which hold the
\* names with '&' and ',') a modelled run uses.
NumTypes == 4

\* The number of worker processes of mp.Pool() (os.cpu_count() on the machine).
PoolSize == 2

\* How many Geometry Provider calls may raise in one run.
MaxFaults == 1

\* How many facility types (the first ones a run uses) may select 0 features.
MaxEmpty == 1

\* How many layer files something outside the run may remove during a run
\* (the specifications with an environment only).
MaxRemovals == 1

\* How many times the cleanup step is applied in the cleanup specification.
MaxCleanups == 2

Types == SubSeq(FacilityTypes, Len(FacilityTypes) - NumTypes + 1, Len(FacilityTypes))

Range(s) == {s[i] : i \in DOMAIN s}

(***************************************************************************)
(* core.replace_special_chars: three str.replace passes, in order.         *)
(***************************************************************************)
RECURSIVE Replace(_, _, _)
Replace(s, old, new) ==
    IF s = <<>> THEN <<>>
    ELSE IF Head(s) = old THEN new \o Replace(Tail(s), old, new)
         ELSE <<Head(s)>> \o Replace(Tail(s), old, new)

RECURSIVE Join(_)
Join(cs) == IF cs = <<>> THEN "" ELSE Head(cs) \o Join(Tail(cs))

replace_special_chars(name) ==
    Join(Replace(Replace(Replace(Chars(name), " ", <<"_">>), "&", <<"a", "n", "d">>), ",", <<>>))

(***************************************************************************)
(* str(int) of the f-strings: decimal digits, most significant first.      *)
(***************************************************************************)
Digit(d) ==
    CASE d = 0 -> "0" [] d = 1 -> "1" [] d = 2 -> "2" [] d = 3 -> "3" [] d = 4 -> "4"
      [] d = 5 -> "5" [] d = 6 -> "6" [] d = 7 -> "7" [] d = 8 -> "8" [] d = 9 -> "9"

RECURSIVE Str(_)
Str(n) == IF n < 10 THEN Digit(n) ELSE Str(n \div 10) \o Digit(n % 10)

\* question3.py:31 and :40 (written by make_fac_type_layer), :84 (read by the worker)
LayerPath(fac_type) == "./shape/" \o replace_special_chars(fac_type) \o "_Layer.shp"

\* the same, tabulated once for the facility types
LayerFile == [fac_type \in Range(FacilityTypes) |-> LayerPath(fac_type)]

LayerContent == [fac_type \in Range(FacilityTypes) |-> replace_special_chars(fac_type)]

OutNameShared(index) == "./shape/FeatureCombination.shp"

\* question3.py:88
OutName(index) == "./shape/FeatureCombination_" \o Str(index) \o ".shp"

(***************************************************************************)
(* itertools.combinations(pool, r): the index-vector generator.  Indices   *)
(* are 1-based here; position i can rise to i + n - r.                     *)
(***************************************************************************)
CombFirst(r) == [i \in 1..r |-> i]

\* the rightmost position that is not at its maximum, 0 when there is none
CombPivot(indices, n, r) ==
    LET movable == {i \in 1..r : indices[i] # i + n - r}
    IN IF movable = {} THEN 0 ELSE CHOOSE i \in movable : \A j \in movable : j <= i

CombNextNoReset(indices, n, r) ==
    LET i == CombPivot(indices, n, r)
    IN [j \in 1..r |-> IF j = i THEN indices[j] + 1 ELSE indices[j]]

CombNext(indices, n, r) ==
    LET i == CombPivot(indices, n, r)
    IN [j \in 1..r |-> IF j < i THEN indices[j] ELSE indices[i] + 1 + (j - i)]

CombTuple(pool, indices) == [i \in 1..Len(indices) |-> pool[indices[i]]]

RECURSIVE CombFrom(_, _, _)
CombFrom(pool, r, indices) ==
    <<CombTuple(pool, indices)>> \o
        (IF CombPivot(indices, Len(pool), r) = 0 THEN <<>>
         ELSE CombFrom(pool, r, CombNext(indices, Len(pool), r)))

Combinations(pool, r) ==
    IF r > Len(pool) THEN <<>> ELSE CombFrom(pool, r, CombFirst(r))

EnumIndexFromOne(k) == k

\* enumerate(...): the index paired with the k-th element (k = 1, 2, ...)
EnumIndex(k) == k - 1

Enumerate(s) == [k \in 1..Len(s) |-> [index |-> EnumIndex(k), comb |-> s[k]]]

(***************************************************************************)
(* State.                                                                  *)
(***************************************************************************)
VARIABLES
    pc,                 \* the statement the main process is about to execute
    counts,             \* counts[i]: GetCount of the selection of Types[i] (0, or 1 for "some")
    shapeDir,           \* whether the directory ./shape exists
    shapeFiles,         \* the files of ./shape: name -> content
    gdb,                \* the feature classes of the workspace: name -> content
    tasks,              \* results, one entry per apply_async call, in call order
    fac_intersect_list, \* the values of res.get() collected so far
    faults,             \* Geometry Provider (and OS) calls that raised
    writers,            \* name -> the indices of the tasks that wrote it
    outOfOrder,         \* a worker finished while an earlier task was unfinished
    outqueue,           \* the pool's result queue: the tasks whose outcome is on its way
    gen,                \* the combinations generator, when the dispatch loop is stepped
    cleanups,           \* how many times shutil.rmtree("./shape/") was called
    cleanupErr,         \* what the last call raised ("none" when it returned)
    inputs              \* what the run was started with: the CSV data, the radius, and
                        \* whether it is the first or the second run on the workspace

vars == <<pc, counts, shapeDir, shapeFiles, gdb, tasks, fac_intersect_list, faults,
          writers, outOfOrder, outqueue, gen, cleanups, cleanupErr, inputs>>

EmptyMap == [x \in {} |-> x]

Put(f, k, v) == (k :> v) @@ f

Drop(f, k) == [x \in DOMAIN f \ {k} |-> f[x]]

\* question3.py:44-46: the names the function works with
facilities_list == "facilities_list"

facilities_buffer == "facilities_buffer"

three_type_fac_intersect == "ThreeTypeIntersect"

\* question3.py:69
temp_name == three_type_fac_intersect \o "_temp"

\* the name the provider gives the output of a Clip called without out_feature_class
clip_auto_name == three_type_fac_intersect \o "_Clip"

IdleGen == [pool |-> <<>>, r |-> 0, indices |-> <<>>, st |-> "idle"]

\* question3.py:26-27 (the module creates ./shape when it is absent), and a
\* workspace holding the facility points written by question 1
Fresh ==
    /\ counts = <<>>
    /\ shapeDir = TRUE
    /\ shapeFiles = EmptyMap
    /\ gdb = (facilities_list :> [op |-> "Points"])
    /\ tasks = <<>>
    /\ fac_intersect_list = <<>>
    /\ faults = 0
    /\ writers = EmptyMap
    /\ outOfOrder = FALSE
    /\ outqueue = <<>>
    /\ cleanups = 0
    /\ cleanupErr = "none"

\* question3.py:44: the default of the parameter radius, which main also passes
DefaultRadius == 500

\* main's checks pass and three_or_above_facilities(radius=500.0, ...) is called
ValidInputs == [csv_folder |-> TRUE, sports_data |-> 1, radius |-> DefaultRadius, run |-> 1]

Init ==
    /\ pc = "buffer"
    /\ gen = IdleGen
    /\ inputs = ValidInputs
    /\ Fresh

\* an exception leaves three_or_above_facilities through exception_handler
\* (core.py:74-83: printed and re-raised)
Raise == pc' = "failed"

MayFault == faults < MaxFaults

\* a call raises: always when an input it needs is missing (forced), otherwise
\* only as a provider fault, which the model counts
Fails(forced) ==
    /\ forced \/ MayFault
    /\ faults' = IF forced THEN faults ELSE faults + 1
    /\ Raise

poolVars == <<tasks, fac_intersect_list, writers, outOfOrder, outqueue>>

enumVars == <<gen>>

cleanupVars == <<cleanups, cleanupErr>>

(***************************************************************************)
(* Buffer stage: question3.py:48-51 and make_fac_type_layer.               *)
(***************************************************************************)
\* the radius is handed to the provider unchecked; what the provider does with a
\* distance that is not positive (reject it, or write a buffer) is its own choice
Buffer ==
    /\ pc = "buffer"
    /\ \/ /\ facilities_list \in DOMAIN gdb
          /\ gdb' = Put(gdb, facilities_buffer,
                        [op |-> "Buffer", of |-> facilities_list, radius |-> inputs.radius])
          /\ pc' = "layers"
          /\ UNCHANGED faults
       \/ /\ Fails(facilities_list \notin DOMAIN gdb \/ inputs.radius <= 0)
          /\ UNCHANGED gdb
    /\ UNCHANGED <<counts, shapeDir, shapeFiles, poolVars, enumVars, inputs, cleanupVars>>

LoopDoneEarly(n) == n >= Len(Types) - 1

\* lines 50-51: the for loop ends after the n-th facility type when it was the last
LoopDone(n) == n = Len(Types)

\* make_fac_type_layer(facilities_buffer, Types[i]) for the next i of the loop
MakeLayer ==
    /\ pc = "layers"
    /\ Len(counts) < Len(Types)
    /\ LET fac_type == Types[Len(counts) + 1]
       IN \/ \E count \in {0, 1} :
                /\ count = 0 => Len(counts) < MaxEmpty
                /\ shapeDir
                /\ counts' = Append(counts, count)
                /\ shapeFiles' = Put(shapeFiles, LayerFile[fac_type],
                                     [op |-> "Layer", of |-> LayerContent[fac_type],
                                      count |-> count])
                /\ pc' = IF LoopDone(Len(counts) + 1) THEN "dispatch" ELSE "layers"
                /\ UNCHANGED faults
          \/ /\ Fails(~shapeDir)
             /\ UNCHANGED <<counts, shapeFiles>>
    /\ UNCHANGED <<shapeDir, gdb, poolVars, enumVars, inputs, cleanupVars>>

(***************************************************************************)
(* Scheduler and workers: question3.py:54-59 and process_combination.      *)
(***************************************************************************)
IsEmptyType(fac_type) == \E i \in DOMAIN counts : Types[i] = fac_type /\ counts[i] = 0

\* enumerate(combinations(FacilityTypes, 3)): the arguments of the apply_async calls
TaskList == Enumerate(Combinations(Types, K))

\* the entry of results for one apply_async call that no worker has taken yet
Queued(index, comb) ==
    [index |-> index, comb |-> comb, st |-> "queued", ok |-> FALSE, result |-> "none"]

\* the AsyncResult of the task is not ready (and never will be, for a task that
\* terminate() killed)
Unfinished(t) == t.st \notin {"done", "raised"}

\* a worker holds the task: it took it from the task queue and has not yet put
\* its outcome on the result queue
Held(t) == t.st \in {"taken", "running", "written", "asserted"}

\* the task can still make a step: it waits in the task queue, a worker holds
\* it, or its outcome is on the result queue
Pending(t) == t.st = "queued" \/ Held(t) \/ t.st \in {"returning", "raising"}

TerminateNothing(ts) == ts

\* Pool.__exit__ calls terminate(): what has not finished never will
Terminate(ts) ==
    [j \in DOMAIN ts |-> IF Pending(ts[j]) THEN [ts[j] EXCEPT !.st = "terminated"] ELSE ts[j]]

\* lines 55-58: one pool.apply_async(process_combination, args=(index, fac_type_comb))
\* for the next element of enumerate(combinations(FacilityTypes, 3)); the
\* workers of the pool take tasks while the comprehension is still calling
Dispatch ==
    /\ pc = "dispatch"
    /\ Len(tasks) < Len(TaskList)
    /\ LET k == Len(tasks) + 1
       IN /\ tasks' = Append(tasks, Queued(TaskList[k].index, TaskList[k].comb))
          /\ pc' = IF k = Len(TaskList) THEN "collect" ELSE "dispatch"
    /\ UNCHANGED <<counts, shapeDir, shapeFiles, gdb, fac_intersect_list, faults, writers,
                   outOfOrder, outqueue, enumVars, inputs, cleanupVars>>

OutFileShared == [index \in {TaskList[k].index : k \in DOMAIN TaskList} |-> OutName(0)]

\* out_name of every task index, tabulated once
OutFile == [index \in {TaskList[k].index : k \in DOMAIN TaskList} |-> OutName(index)]

\* the worker processes live from mp.Pool() (line 54) until terminate(), which
\* Pool.__exit__ calls when the with block is left, normally or by an exception
PoolAlive == pc \in {"dispatch", "collect", "exit", "exit_raised"}

\* a free worker process takes the oldest task of the task queue
Take(i) ==
    /\ PoolAlive
    /\ tasks[i].st = "queued"
    /\ \A j \in 1..(i - 1) : tasks[j].st # "queued"
    /\ Cardinality({j \in DOMAIN tasks : Held(tasks[j])}) < PoolSize
    /\ tasks' = [tasks EXCEPT ![i].st = "taken"]
    /\ UNCHANGED <<pc, counts, shapeDir, shapeFiles, gdb, fac_intersect_list, faults, writers,
                   outOfOrder, outqueue, enumVars, inputs, cleanupVars>>

\* lines 82-86 in the worker: the assertion that the layer file of every member
\* type exists; when it fails the AssertionError leaves process_combination
Start(i) ==
    /\ PoolAlive
    /\ tasks[i].st = "taken"
    /\ LET exists == \A ft \in Range(tasks[i].comb) :
                         shapeDir /\ LayerFile[ft] \in DOMAIN shapeFiles
       IN tasks' = [tasks EXCEPT ![i].st = IF exists THEN "running" ELSE "asserted"]
    /\ UNCHANGED <<pc, counts, shapeDir, shapeFiles, gdb, fac_intersect_list, faults, writers,
                   outOfOrder, outqueue, enumVars, inputs, cleanupVars>>

\* lines 88-94 in the worker: Intersect_analysis into out_name; an exception is
\* printed and swallowed; out_name is what the function will return either way
Intersect(i) ==
    /\ PoolAlive
    /\ tasks[i].st = "running"
    /\ LET out_name == OutFile[tasks[i].index]
           layers == [j \in DOMAIN tasks[i].comb |-> LayerFile[tasks[i].comb[j]]]
           readable == shapeDir /\ \A j \in DOMAIN layers : layers[j] \in DOMAIN shapeFiles
       IN \/ /\ readable
             /\ shapeFiles' = Put(shapeFiles, out_name,
                                  [op |-> "Intersect",
                                   of |-> [j \in DOMAIN layers |-> shapeFiles[layers[j]]]])
             /\ writers' = Put(writers, out_name,
                               (IF out_name \in DOMAIN writers THEN writers[out_name] ELSE {})
                                   \cup {tasks[i].index})
             /\ tasks' = [tasks EXCEPT ![i] = [@ EXCEPT !.st = "written", !.ok = TRUE,
                                                        !.result = out_name]]
             /\ UNCHANGED faults
          \/ /\ ~readable \/ MayFault
             /\ faults' = IF readable THEN faults + 1 ELSE faults
             /\ tasks' = [tasks EXCEPT ![i] = [@ EXCEPT !.st = "written", !.ok = FALSE,
                                                        !.result = out_name]]
             /\ UNCHANGED <<shapeFiles, writers>>
    /\ UNCHANGED <<pc, counts, shapeDir, gdb, fac_intersect_list, outOfOrder, outqueue, enumVars,
                   inputs, cleanupVars>>

\* the worker puts what process_combination returned or raised on the pool's
\* result queue, without waiting for anybody, and is free again
PutResult(i) ==
    /\ PoolAlive
    /\ tasks[i].st \in {"written", "asserted"}
    /\ outqueue' = Append(outqueue, i)
    /\ tasks' = [tasks EXCEPT ![i].st = IF @ = "written" THEN "returning" ELSE "raising"]
    /\ UNCHANGED <<pc, counts, shapeDir, shapeFiles, gdb, fac_intersect_list, faults, writers,
                   outOfOrder, enumVars, inputs, cleanupVars>>

\* the pool's result handler takes the oldest outcome of the result queue: the
\* AsyncResult of the task becomes ready
Finish(i) ==
    /\ PoolAlive
    /\ outqueue # <<>>
    /\ Head(outqueue) = i
    /\ outqueue' = Tail(outqueue)
    /\ tasks' = [tasks EXCEPT ![i].st = IF @ = "returning" THEN "done" ELSE "raised"]
    /\ outOfOrder' = (outOfOrder \/ \E j \in 1..(i - 1) : Unfinished(tasks[j]))
    /\ UNCHANGED <<pc, counts, shapeDir, shapeFiles, gdb, fac_intersect_list, faults, writers,
                   enumVars, inputs, cleanupVars>>

ReadyNoWait(i) == TRUE

\* AsyncResult.get() returns (or re-raises) only once the task has finished
Ready(i) == tasks[i].st \in {"done", "raised"}

GetIndexByCompletion ==
    LET c == {i \in DOMAIN tasks : tasks[i].st = "done"
                                    /\ tasks[i].result \notin Range(fac_intersect_list)}
    IN IF c = {} THEN Len(fac_intersect_list) + 1
       ELSE CHOOSE i \in c : \A j \in c : i <= j

\* [res.get() for res in results]: the result the comprehension asks for next
GetIndex == Len(fac_intersect_list) + 1

\* line 59: the next res.get() returns the task's value or re-raises what the
\* worker raised; after the last one, or with the exception, the with block is left
Collect ==
    /\ pc = "collect"
    /\ LET i == GetIndex
       IN /\ i \in DOMAIN tasks
          /\ Ready(i)
          /\ IF tasks[i].st = "raised"
             THEN /\ pc' = "exit_raised"
                  /\ UNCHANGED fac_intersect_list
             ELSE /\ fac_intersect_list' = Append(fac_intersect_list, tasks[i].result)
                  /\ pc' = IF Len(fac_intersect_list) + 1 = Len(tasks) THEN "exit" ELSE "collect"
    /\ UNCHANGED <<counts, shapeDir, shapeFiles, gdb, tasks, faults, writers, outOfOrder,
                   outqueue, enumVars, inputs, cleanupVars>>

\* Pool.__exit__: terminate() has stopped the workers; until then they kept
\* going.  A propagating exception then leaves the function
PoolExit ==
    /\ pc \in {"exit", "exit_raised"}
    /\ tasks' = Terminate(tasks)
    /\ outqueue' = <<>>
    /\ IF pc = "exit" THEN pc' = "merge" ELSE Raise
    /\ UNCHANGED <<counts, shapeDir, shapeFiles, gdb, fac_intersect_list, faults, writers,
                   outOfOrder, enumVars, inputs, cleanupVars>>

(***************************************************************************)
(* Aggregation and cleanup: question3.py:61-78.                            *)
(***************************************************************************)
InShape(name) == shapeDir /\ name \in DOMAIN shapeFiles

\* arcpy.management.Merge(fac_intersect_list, three_type_fac_intersect)
Merge ==
    /\ pc = "merge"
    /\ LET missing == \E p \in DOMAIN fac_intersect_list : ~InShape(fac_intersect_list[p])
       IN \/ /\ ~missing
             /\ gdb' = Put(gdb, three_type_fac_intersect,
                           [op |-> "Merge",
                            of |-> [p \in DOMAIN fac_intersect_list |->
                                        shapeFiles[fac_intersect_list[p]]]])
             /\ pc' = "clip"
             /\ UNCHANGED faults
          \/ /\ Fails(missing)
             /\ UNCHANGED gdb
    /\ UNCHANGED <<counts, shapeDir, shapeFiles, poolVars, enumVars, inputs, cleanupVars>>

\* arcpy.Clip_analysis(three_type_fac_intersect, hk_shape): no out_feature_class
\* is passed, so the clipped features go to a name of the provider's choosing
Clip ==
    /\ pc = "clip"
    /\ \/ /\ three_type_fac_intersect \in DOMAIN gdb
          /\ gdb' = Put(gdb, clip_auto_name,
                        [op |-> "Clip", of |-> gdb[three_type_fac_intersect]])
          /\ pc' = "rmtree"
          /\ UNCHANGED faults
       \/ /\ Fails(three_type_fac_intersect \notin DOMAIN gdb)
          /\ UNCHANGED gdb
    /\ UNCHANGED <<counts, shapeDir, shapeFiles, poolVars, enumVars, inputs, cleanupVars>>

\* shutil.rmtree("./shape/") (ignore_errors is left False): the directory and
\* all it holds are removed; a directory that does not exist is an error
RmtreeResult(dir, files) ==
    IF dir THEN [dir |-> FALSE, files |-> EmptyMap, err |-> "none"]
    ELSE [dir |-> FALSE, files |-> files, err |-> "FileNotFoundError"]

\* rmtree removes the entries one by one, in the order the directory lists
\* them, and then the directory; it raises at the first removal that fails: the
\* entries it got to before are gone, the one that failed and those after it
\* are kept, and so is the directory (empty when it was the rmdir that failed)
RmtreeStopped(files, kept) == [name \in kept |-> files[name]]

Rmtree ==
    /\ pc = "rmtree"
    /\ cleanups' = cleanups + 1
    /\ \/ /\ LET res == RmtreeResult(shapeDir, shapeFiles)
             IN /\ shapeDir' = res.dir
                /\ shapeFiles' = res.files
                /\ cleanupErr' = res.err
                /\ pc' = IF res.err = "none" THEN "dissolve" ELSE "failed"
          /\ UNCHANGED faults
       \/ /\ shapeDir
          /\ Fails(FALSE)
          /\ cleanupErr' = "OSError"
          /\ \E kept \in SUBSET DOMAIN shapeFiles :
                shapeFiles' = RmtreeStopped(shapeFiles, kept)
          /\ UNCHANGED shapeDir
    /\ UNCHANGED <<counts, gdb, poolVars, enumVars, inputs>>

\* a provider tool reading feature class src and writing feature class dst
Derive(at, op, src, dst, next) ==
    /\ pc = at
    /\ \/ /\ src \in DOMAIN gdb
          /\ gdb' = Put(gdb, dst, [op |-> op, of |-> gdb[src]])
          /\ pc' = next
          /\ UNCHANGED faults
       \/ /\ Fails(src \notin DOMAIN gdb)
          /\ UNCHANGED gdb
    /\ UNCHANGED <<counts, shapeDir, shapeFiles, poolVars, enumVars, inputs, cleanupVars>>

\* arcpy.Delete_management(name)
Delete(at, name, next) ==
    /\ pc = at
    /\ \/ /\ name \in DOMAIN gdb
          /\ gdb' = Drop(gdb, name)
          /\ pc' = next
          /\ UNCHANGED faults
       \/ /\ Fails(name \notin DOMAIN gdb)
          /\ UNCHANGED gdb
    /\ UNCHANGED <<counts, shapeDir, shapeFiles, poolVars, enumVars, inputs, cleanupVars>>

\* arcpy.Rename_management(src, dst)
Rename(at, src, dst, next) ==
    /\ pc = at
    /\ \/ /\ src \in DOMAIN gdb
          /\ dst \notin DOMAIN gdb
          /\ gdb' = Put(Drop(gdb, src), dst, gdb[src])
          /\ pc' = next
          /\ UNCHANGED faults
       \/ /\ Fails(src \notin DOMAIN gdb \/ dst \in DOMAIN gdb)
          /\ UNCHANGED gdb
    /\ UNCHANGED <<counts, shapeDir, shapeFiles, poolVars, enumVars, inputs, cleanupVars>>

\* lines 70-72
Dissolve == Derive("dissolve", "Dissolve", three_type_fac_intersect, temp_name, "delete1")

DeleteMerged == Delete("delete1", three_type_fac_intersect, "rename1")

RenameDissolved == Rename("rename1", temp_name, three_type_fac_intersect, "split")

DissolveAgain == Derive("split", "Dissolve", three_type_fac_intersect, temp_name, "delete2")

\* lines 74-76
Split == Derive("split", "MultipartToSinglepart", three_type_fac_intersect, temp_name, "delete2")

DeleteDissolved == Delete("delete2", three_type_fac_intersect, "rename2")

RenameSplit == Rename("rename2", temp_name, three_type_fac_intersect, "done")

Next ==
    \/ Buffer
    \/ MakeLayer
    \/ Dispatch
    \/ \E i \in DOMAIN tasks : Take(i)
    \/ \E i \in DOMAIN tasks : Start(i)
    \/ \E i \in DOMAIN tasks : Intersect(i)
    \/ \E i \in DOMAIN tasks : PutResult(i)
    \/ \E i \in DOMAIN tasks : Finish(i)
    \/ Collect
    \/ PoolExit
    \/ Merge
    \/ Clip
    \/ Rmtree
    \/ Dissolve
    \/ DeleteMerged
    \/ RenameDissolved
    \/ Split
    \/ DeleteDissolved
    \/ RenameSplit

Spec == Init /\ [][Next]_vars

(***************************************************************************)
(* The entry of a run: main() (question3.py:97-115), or a direct call of   *)
(* three_or_above_facilities with a radius of the caller's choosing, up to *)
(* the dispatch of the tasks.                                              *)
(***************************************************************************)
Radii == {-1, 0, 250, DefaultRadius}

InitMain ==
    /\ pc \in {"main", "buffer"}
    /\ inputs \in [csv_folder : BOOLEAN, sports_data : {0, 1}, radius : Radii, run : {1}]
    /\ pc = "main" => inputs.radius = DefaultRadius
    /\ pc = "buffer" => inputs.csv_folder /\ inputs.sports_data = 1
    /\ gen = IdleGen
    /\ Fresh

mainNoDataCheck ==
    /\ pc = "main"
    /\ IF ~inputs.csv_folder THEN Raise ELSE pc' = "buffer"
    /\ UNCHANGED <<counts, shapeDir, shapeFiles, gdb, faults, poolVars, enumVars, inputs,
                   cleanupVars>>

\* lines 103-115: FileNotFoundError when ./csv_data/ is absent, ValueError when
\* no facility was read, otherwise three_or_above_facilities(radius=500.0, ...)
main ==
    /\ pc = "main"
    /\ IF ~inputs.csv_folder \/ inputs.sports_data = 0 THEN Raise ELSE pc' = "buffer"
    /\ UNCHANGED <<counts, shapeDir, shapeFiles, gdb, faults, poolVars, enumVars, inputs,
                   cleanupVars>>

NextMain ==
    \/ main
    \/ Buffer
    \/ MakeLayer
    \/ Dispatch

SpecMain == InitMain /\ [][NextMain]_vars

(***************************************************************************)
(* The dispatch loop alone, one apply_async per step, over any category    *)
(* list and any r: the comprehension of lines 55-58 with the generator of  *)
(* itertools.combinations advanced once per task.  No worker is run.       *)
(***************************************************************************)
ExampleCategories == <<"A", "B", "C", "D">>

CategoryLists ==
    {SubSeq(FacilityTypes, 1, n) : n \in 1..Len(FacilityTypes)} \cup {ExampleCategories}

InitComb ==
    /\ pc = "enum"
    /\ gen \in {[pool |-> p, r |-> r, indices |-> <<>>, st |-> "fresh"] :
                    p \in CategoryLists, r \in 1..Len(FacilityTypes)}
    /\ gen.r <= Len(gen.pool)
    /\ inputs = ValidInputs
    /\ Fresh

DispatchStep ==
    /\ pc = "enum"
    /\ gen.st \in {"fresh", "active"}
    /\ LET n == Len(gen.pool)
           stop == IF gen.st = "fresh" THEN gen.r > n
                   ELSE CombPivot(gen.indices, n, gen.r) = 0
           indices == IF gen.st = "fresh" THEN CombFirst(gen.r)
                      ELSE CombNext(gen.indices, n, gen.r)
       IN IF stop
          THEN /\ gen' = [gen EXCEPT !.st = "exhausted"]
               /\ UNCHANGED tasks
          ELSE /\ gen' = [gen EXCEPT !.st = "active", !.indices = indices]
               /\ tasks' = Append(tasks, Queued(EnumIndex(Len(tasks) + 1),
                                                CombTuple(gen.pool, indices)))
    /\ UNCHANGED <<pc, counts, shapeDir, shapeFiles, gdb, fac_intersect_list, faults,
                   writers, outOfOrder, outqueue, cleanupVars, inputs>>

NextComb == DispatchStep

SpecComb == InitComb /\ [][NextComb]_vars

(***************************************************************************)
(* The cleanup step alone (line 66), applied to a ./shape that holds any   *)
(* of the files a run writes, and applied again.                           *)
(***************************************************************************)
TempNames == {LayerFile[Types[i]] : i \in DOMAIN Types} \cup Range(OutFile)

InitCleanup ==
    /\ pc = "cleanup"
    /\ gen = IdleGen
    /\ counts = <<>>
    /\ shapeDir = TRUE
    /\ \E present \in SUBSET TempNames :
          shapeFiles = [name \in present |-> [op |-> "File"]]
    /\ gdb \in {(facilities_list :> [op |-> "Points"]),
                (facilities_list :> [op |-> "Points"])
                    @@ (three_type_fac_intersect :> [op |-> "Merge"])}
    /\ tasks = <<>>
    /\ fac_intersect_list = <<>>
    /\ faults = 0
    /\ writers = EmptyMap
    /\ outOfOrder = FALSE
    /\ outqueue = <<>>
    /\ cleanups = 0
    /\ cleanupErr = "none"
    /\ inputs = ValidInputs

CleanupStep ==
    /\ pc = "cleanup"
    /\ cleanups < MaxCleanups
    /\ cleanups' = cleanups + 1
    /\ LET res == RmtreeResult(shapeDir, shapeFiles)
       IN /\ shapeDir' = res.dir
          /\ shapeFiles' = res.files
          /\ cleanupErr' = res.err
    /\ UNCHANGED <<pc, counts, gdb, poolVars, faults, enumVars, inputs>>

NextCleanup == CleanupStep

SpecCleanup == InitCleanup /\ [][NextCleanup]_vars

(***************************************************************************)
(* A run during which something outside it removes a layer file at any     *)
(* moment after the buffer stage wrote it and before the pool is gone:     *)
(* before a worker starts on a task that needs it (the case the assertion  *)
(* of line 85 is there for), or after the worker has passed the assertion. *)
(***************************************************************************)
\* the facility types whose layer file was written and is no longer there
Removed == {i \in DOMAIN counts : ~InShape(LayerFile[Types[i]])}

RemoveLayer(fac_type) ==
    /\ pc = "layers" \/ PoolAlive
    /\ InShape(LayerFile[fac_type])
    /\ Cardinality(Removed) < MaxRemovals
    /\ shapeFiles' = Drop(shapeFiles, LayerFile[fac_type])
    /\ UNCHANGED <<pc, counts, shapeDir, gdb, faults, poolVars, enumVars, inputs, cleanupVars>>

NextEnv ==
    \/ Next
    \/ \E fac_type \in Range(Types) : RemoveLayer(fac_type)

SpecEnv == Init /\ [][NextEnv]_vars

(***************************************************************************)
(* A run, and the run that follows it when it crashed before its cleanup   *)
(* (line 66 was not reached): the second run starts in a new process on    *)
(* the ./shape and the workspace the first one left.                       *)
(***************************************************************************)
\* what is known of a file or feature class that an earlier run wrote
Stale == [op |-> "Stale"]

Rerun ==
    /\ pc = "failed"
    /\ cleanups = 0
    /\ inputs.run = 1
    /\ inputs' = [inputs EXCEPT !.run = 2]
    /\ pc' = "buffer"
    /\ shapeDir' = TRUE
    /\ shapeFiles' = [name \in DOMAIN shapeFiles |-> Stale]
    /\ gdb' = [name \in DOMAIN gdb |-> IF name = facilities_list THEN gdb[name] ELSE Stale]
    /\ counts' = <<>>
    /\ tasks' = <<>>
    /\ fac_intersect_list' = <<>>
    /\ faults' = 0
    /\ writers' = EmptyMap
    /\ outOfOrder' = FALSE
    /\ outqueue' = <<>>
    /\ UNCHANGED <<enumVars, cleanupVars>>

NextRerun ==
    \/ NextEnv
    \/ Rerun

SpecRerun == Init /\ [][NextRerun]_vars

(***************************************************************************)
(* Properties.                                                             *)
(***************************************************************************)
RECURSIVE Binomial(_, _)
Binomial(n, k) ==
    IF k = 0 \/ k = n THEN 1
    ELSE IF k > n THEN 0
    ELSE Binomial(n - 1, k - 1) + Binomial(n - 1, k)

Position(pool, x) == CHOOSE i \in DOMAIN pool : pool[i] = x

\* a comes before b in lexicographic order
LexLess(a, b) ==
    \E i \in DOMAIN a : /\ \A j \in 1..(i - 1) : a[j] = b[j]
                        /\ a[i] < b[i]

Positions(pool, comb) == [j \in DOMAIN comb |-> Position(pool, comb[j])]

AggregatorPcs ==
    {"merge", "clip", "rmtree", "dissolve", "delete1", "rename1", "split", "delete2",
     "rename2", "done"}

\* C1: once the dispatch loop over a category list of size N with 1 <= r <= N has
\* ended, there are exactly C(N, r) tasks, every task is an r-subset of distinct
\* categories of the list, no subset is the argument of two tasks, and every
\* r-subset of the list is the argument of some task.
C1_AllSubsetsOnce ==
    (pc = "enum" /\ gen.st = "exhausted") =>
        LET cats == Range(gen.pool)
        IN /\ Len(tasks) = Binomial(Len(gen.pool), gen.r)
           /\ \A k \in DOMAIN tasks :
                 /\ Len(tasks[k].comb) = gen.r
                 /\ Range(tasks[k].comb) \subseteq cats
                 /\ Cardinality(Range(tasks[k].comb)) = gen.r
           /\ \A k, l \in DOMAIN tasks :
                 k # l => Range(tasks[k].comb) # Range(tasks[l].comb)
           /\ \A S \in SUBSET cats :
                 Cardinality(S) = gen.r => \E k \in DOMAIN tasks : Range(tasks[k].comb) = S

\* the source's case: the 8 facility types, r = 3, 56 tasks
C1_Witness ==
    /\ pc = "enum"
    /\ gen.st = "exhausted"
    /\ gen.pool = FacilityTypes
    /\ gen.r = K
    /\ Len(tasks) = 56

\* C2: the k-th task created carries index k - 1, each task's combination comes
\* after the previous task's in lexicographic order over the positions of the
\* input list, and for [A, B, C, D] with r = 3 the tasks are 0:(A,B,C), 1:(A,B,D),
\* 2:(A,C,D), 3:(B,C,D).
C2_LexicographicIndices ==
    pc = "enum" =>
        /\ \A k \in DOMAIN tasks :
              /\ tasks[k].index = k - 1
              /\ k > 1 => LexLess(Positions(gen.pool, tasks[k - 1].comb),
                                  Positions(gen.pool, tasks[k].comb))
        /\ (gen.st = "exhausted" /\ gen.pool = ExampleCategories /\ gen.r = 3) =>
              [k \in DOMAIN tasks |-> <<tasks[k].index, tasks[k].comb>>]
                  = << <<0, <<"A", "B", "C">> >>, <<1, <<"A", "B", "D">> >>,
                       <<2, <<"A", "C", "D">> >>, <<3, <<"B", "C", "D">> >> >>

C2_Witness ==
    /\ pc = "enum"
    /\ gen.st = "exhausted"
    /\ gen.pool = ExampleCategories
    /\ gen.r = 3
    /\ Len(tasks) = 4

\* C3: at every moment of the collection, position p of fac_intersect_list holds
\* the value returned by the worker of the p-th task created, whatever order the
\* workers finished in.
C3_ResultsAligned ==
    \A p \in DOMAIN fac_intersect_list :
        /\ tasks[p].st = "done"
        /\ tasks[p].index = p - 1
        /\ fac_intersect_list[p] = tasks[p].result

\* all results collected after a later task finished before an earlier one
C3_Witness ==
    /\ pc = "merge"
    /\ outOfOrder
    /\ Len(fac_intersect_list) = Len(tasks)
    /\ Len(tasks) > 1

\* C4: while the main process is at merge, clip, the cleanup, dissolve or split
\* (or has finished them), every dispatched task has reported its result and the
\* result has been collected; no task is queued or running.
C4_Barrier ==
    pc \in AggregatorPcs =>
        /\ tasks # <<>>
        /\ \A i \in DOMAIN tasks : tasks[i].st = "done"
        /\ Len(fac_intersect_list) = Len(tasks)

C4_Witness ==
    /\ pc = "clip"
    /\ three_type_fac_intersect \in DOMAIN gdb
    /\ \A i \in DOMAIN tasks : tasks[i].st = "done"

\* C5: a task whose intersection raised returns a result that is told apart from
\* the result of a successful intersection (failure-tagged), and no other task is
\* terminated because of it.
C5_FailureTagged ==
    \A i \in DOMAIN tasks :
        (tasks[i].st = "done" /\ ~tasks[i].ok) =>
            /\ tasks[i].result \notin Range(OutFile)
            /\ \A j \in DOMAIN tasks : tasks[j].st # "terminated"

\* C6: the inputs handed to Merge are exactly the results of the tasks whose
\* intersection succeeded.
C6_MergeInputsAreSuccesses ==
    pc = "merge" =>
        Range(fac_intersect_list) = {tasks[i].result : i \in {j \in DOMAIN tasks : tasks[j].ok}}

\* C7: the output names of two distinct tasks differ, every file written by the
\* workers of a run has exactly one writing task, and no worker writes the layer
\* file of a facility type.
C7_DistinctOutputs ==
    /\ \A i, j \in DOMAIN tasks :
          i < j => OutFile[tasks[i].index] # OutFile[tasks[j].index]
    /\ \A name \in DOMAIN writers :
          /\ Cardinality(writers[name]) = 1
          /\ name \notin Range(LayerFile)

\* a worker has written its output while another task, created earlier, is running
C7_Witness ==
    \E i, j \in DOMAIN tasks :
        /\ i < j
        /\ tasks[i].st = "running"
        /\ tasks[j].st = "done"
        /\ tasks[j].ok
        /\ OutFile[tasks[j].index] \in DOMAIN writers

\* C8: when the run has ended, normally or with an exception, ./shape holds no
\* layer file and no combination file, and a run that ended normally has its
\* final region set.
C8_TempsRemovedOnExit ==
    pc \in {"done", "failed"} =>
        /\ ~shapeDir \/ DOMAIN shapeFiles = {}
        /\ pc = "done" => three_type_fac_intersect \in DOMAIN gdb

\* C9: no call of the cleanup step changes the feature classes of the workspace,
\* and a call that follows an earlier call raises nothing.
C9_CleanupIdempotent ==
    [][(pc = "cleanup" /\ cleanups' = cleanups + 1) =>
          /\ gdb' = gdb
          /\ cleanups >= 1 => cleanupErr' = "none"]_vars

\* C10: every dispatched task names only facility types whose selection is not
\* empty: a subset with an empty facility type is skipped before dispatch.
C10_OnlyNonEmptyDispatched ==
    \A i \in DOMAIN tasks : \A j \in DOMAIN tasks[i].comb : ~IsEmptyType(tasks[i].comb[j])

\* C11: a provider error while one facility type is buffered or materialized is
\* not fatal: the remaining facility types are still buffered, so a run that
\* has failed had every facility type buffered first.
C11_CategoryErrorNotFatal ==
    pc = "failed" => Len(counts) = Len(Types)

\* the run has created nothing: no feature class, no file, no task
NothingDone ==
    /\ gdb = (facilities_list :> [op |-> "Points"])
    /\ shapeFiles = EmptyMap
    /\ counts = <<>>
    /\ tasks = <<>>

\* C12 as stated: a run started with an input error (no facility data, or a
\* radius that is not positive) gets no further than its entry or its failure,
\* creates no feature class and no file, and dispatches no task.
C12_InputErrorsFailFast ==
    (~inputs.csv_folder \/ inputs.sports_data = 0 \/ inputs.radius <= 0) =>
        /\ pc \in {"main", "buffer", "failed"}
        /\ NothingDone

\* C12 as amended: the inputs that are checked are the CSV folder and the
\* facility data: when either is missing main raises before
\* three_or_above_facilities is called, so no provider call is issued, nothing is
\* created and no task is dispatched.
C12_MissingDataFailsFast ==
    (~inputs.csv_folder \/ inputs.sports_data = 0) =>
        /\ pc \in {"main", "failed"}
        /\ faults = 0
        /\ NothingDone

\* main has raised ValueError: the folder is there, no facility was read
C12_Witness ==
    /\ pc = "failed"
    /\ inputs.csv_folder
    /\ inputs.sports_data = 0
    /\ NothingDone

\* C13: the collection the dissolve step reads is the result of the clip: the
\* output of Dissolve is derived from a Clip output, and so is the final region
\* set of a run that ended normally.
C13_DissolveReadsClip ==
    /\ (temp_name \in DOMAIN gdb /\ gdb[temp_name].op = "Dissolve") =>
           gdb[temp_name].of.op = "Clip"
    /\ pc = "done" => gdb[three_type_fac_intersect].of.of.op = "Clip"

\* C14: when the run has ended normally, the feature class under the final name
\* is the output of MultipartToSinglepart applied to the output of Dissolve
\* applied to the merged collection, and the temporary name is gone; while the
\* split pass is under way the final name holds the dissolved collection.
C14_SplitOfDissolveIsFinal ==
    /\ pc = "done" =>
          /\ three_type_fac_intersect \in DOMAIN gdb
          /\ gdb[three_type_fac_intersect].op = "MultipartToSinglepart"
          /\ gdb[three_type_fac_intersect].of.op = "Dissolve"
          /\ gdb[three_type_fac_intersect].of.of.op = "Merge"
          /\ temp_name \notin DOMAIN gdb
    /\ pc = "split" =>
          /\ three_type_fac_intersect \in DOMAIN gdb
          /\ gdb[three_type_fac_intersect].op = "Dissolve"

C14_Witness ==
    /\ pc = "done"
    /\ three_type_fac_intersect \in DOMAIN gdb
    /\ gdb[three_type_fac_intersect].op = "MultipartToSinglepart"

\* C16: when the run has failed, the final name holds no partial collection:
\* what is under it, if anything, has been clipped, dissolved and split.
C16_NoPartialFinalAfterFailure ==
    (pc = "failed" /\ three_type_fac_intersect \in DOMAIN gdb) =>
        /\ gdb[three_type_fac_intersect].op = "MultipartToSinglepart"
        /\ gdb[three_type_fac_intersect].of.op = "Dissolve"

\* C17: a cleanup step that raised does not make the run fail.
C17_CleanupFailureOnlyWarns ==
    cleanupErr # "none" => pc # "failed"

\* C18: the layer files are written one facility type after the other, in the
\* order of the list, and no task exists until the buffer and the layer file of
\* every facility type have been written; when the pool starts, all of them are
\* in ./shape.
C18_BufferStageBeforeDispatch ==
    /\ pc = "layers" =>
          /\ DOMAIN shapeFiles = {LayerFile[Types[i]] : i \in DOMAIN counts}
          /\ tasks = <<>>
    /\ tasks # <<>> =>
          /\ Len(counts) = Len(Types)
          /\ facilities_buffer \in DOMAIN gdb
    /\ pc \in {"dispatch", "collect"} =>
          \A i \in DOMAIN Types : InShape(LayerFile[Types[i]])

\* the tasks are dispatched and a worker has taken the first of them
C18_Witness ==
    /\ pc = "collect"
    /\ Len(counts) = Len(Types)
    /\ tasks # <<>>
    /\ tasks[1].st = "running"

\* what the inputs alone determine: the layer of a facility type, the
\* intersection of a combination, and the final region set
ExpectedLayer(fac_type) ==
    [op |-> "Layer", of |-> LayerContent[fac_type],
     count |-> counts[Position(Types, fac_type)]]

ExpectedIntersect(comb) ==
    [op |-> "Intersect", of |-> [j \in DOMAIN comb |-> ExpectedLayer(comb[j])]]

ExpectedFinal ==
    [op |-> "MultipartToSinglepart",
     of |-> [op |-> "Dissolve",
             of |-> [op |-> "Merge",
                     of |-> [k \in DOMAIN TaskList |-> ExpectedIntersect(TaskList[k].comb)]]]]

\* C15: the final region set of a run that ended normally is determined by the
\* inputs (the facility types and what the provider selected for each) alone:
\* it is the same feature class whatever order the workers finished in.
C15_FinalDeterminedByInputs ==
    pc = "done" => gdb[three_type_fac_intersect] = ExpectedFinal

\* a run that ended normally although a worker finished before an earlier task
C15_Witness ==
    /\ pc = "done"
    /\ outOfOrder
    /\ three_type_fac_intersect \in DOMAIN gdb

\* C19: a combination file left by a crashed run is never among the feature
\* classes merged by the next run.
C19_LeftoverNeverMerged ==
    (three_type_fac_intersect \in DOMAIN gdb /\ gdb[three_type_fac_intersect].op = "Merge") =>
        \A p \in DOMAIN gdb[three_type_fac_intersect].of :
            gdb[three_type_fac_intersect].of[p] # Stale

\* what a task looks like once its worker found a layer file missing: it
\* returned no result and wrote no output, its result is not collected, the run
\* is not at merge, clip, dissolve or split and has merged nothing, and once the
\* run has failed no task of the pool is queued, held by a worker or in transit
Aborted(i, ts, collected, at, files, workspace) ==
    /\ ts[i].result = "none"
    /\ ~ts[i].ok
    /\ OutFile[ts[i].index] \notin DOMAIN files
    /\ Len(collected) < i
    /\ at \in {"dispatch", "collect", "exit_raised", "failed"}
    /\ three_type_fac_intersect \notin DOMAIN workspace
    /\ at = "failed" => \A j \in DOMAIN ts : ~Pending(ts[j])

\* the layer file of every facility type of the task is there
LayersExist(i) == \A j \in DOMAIN tasks[i].comb : InShape(LayerFile[tasks[i].comb[j]])

\* C20: in every step of a run, a worker that starts on a task goes on to the
\* intersection exactly if the layer file of each of the task's types exists at
\* that moment, and only a task that passed this check gets an output written;
\* a task whose worker found a layer file missing has raised and stays so: no
\* result, no output, never collected, the pool is torn down with the run
\* failed, and merge, clip, dissolve and split are never executed.
C20_MissingLayerAborts ==
    [][\A i \in DOMAIN tasks' :
          /\ (i \in DOMAIN tasks /\ tasks[i].st = "taken"
                                  /\ tasks'[i].st \in {"running", "asserted"}) =>
                 (tasks'[i].st = "running" <=> LayersExist(i))
          /\ tasks'[i].st = "running" => (i \in DOMAIN tasks /\ tasks[i].st \in {"taken", "running"})
          /\ tasks'[i].st = "written" => (i \in DOMAIN tasks /\ tasks[i].st \in {"running", "written"})
          /\ tasks'[i].st \in {"asserted", "raising", "raised"} =>
                 Aborted(i, tasks', fac_intersect_list', pc', shapeFiles', gdb')
          /\ (i \in DOMAIN tasks /\ tasks[i].st \in {"asserted", "raising", "raised"}) =>
                 tasks'[i].st \in {"asserted", "raising", "raised", "terminated"}]_vars

\* the run has failed with two tasks raised for the layer file that was removed
\* from outside, while another task had written its output and a fourth was
\* stopped by the teardown of the pool
C20_Witness ==
    /\ pc = "failed"
    /\ Removed # {}
    /\ Cardinality({i \in DOMAIN tasks : tasks[i].st = "raised"}) >= 2
    /\ \E i \in DOMAIN tasks : tasks[i].st = "done" /\ tasks[i].ok
    /\ \E i \in DOMAIN tasks : tasks[i].st = "terminated"

\* the tabulated characters spell the facility types, and the layer names are the
\* ones the source computes for them
TablesSane ==
    /\ \A i \in DOMAIN FacilityTypes : Join(Chars(FacilityTypes[i])) = FacilityTypes[i]
    /\ LayerFile["Other Recreation & Sports Facilities"]
          = "./shape/Other_Recreation_and_Sports_Facilities_Layer.shp"
    /\ LayerFile["Parks, Zoos And Gardens"] = "./shape/Parks_Zoos_And_Gardens_Layer.shp"
    /\ OutName(0) = "./shape/FeatureCombination_0.shp"
    /\ OutName(55) = "./shape/FeatureCombination_55.shp"
    /\ OutName(107) = "./shape/FeatureCombination_107.shp"
====
